---- MODULE Spec2Model ----
(***************************************************************************)
(* Model of src/main.py: the scheduled report run (create_report), the     *)
(* ad-hoc query run (ask_query), the watermark file, the history file, the *)
(* token budget (truncate_history) and the directory folding               *)
(* (extract_unique_directories).                                            *)
(*                                                                         *)
(* pathlib.Path is PosixPath or WindowsPath according to the host.  The     *)
(* process is assumed to run with ROOT_DIR as working directory, so        *)
(* "data/history.json" (line 62, 121) and HISTORY_FILE (line 18) name the  *)
(* same file.                                                              *)
(***************************************************************************)
EXTENDS Integers, Sequences, FiniteSets, TLC

\* ------------------------------------------------------------------ bounds
\* the clock starts one second before midnight, so that it crosses a date
T0 == 86399
MaxTicks == 1
MaxChanges == 2
MaxRuns == 2
MaxFiles == 14

MaxTime == T0 + MaxTicks

\* ------------------------------------------------- program constants
MAX_TOKENS == 100000
SecondsPerDay == 86400
FoldCap == 12
SYSTEM_MESSAGE == "SYSTEM_MESSAGE"

None == <<>>

\* ------------------------------------------------------ time conversions
\* datetime.strftime("%Y/%m/%d:%H:%M:%S"): an instant (seconds) is written
\* as a date field and a time-of-day field.
Strftime(t) == <<t \div SecondsPerDay, t % SecondsPerDay>>

\* datetime.strptime(s, "%Y/%m/%d:%H:%M:%S")
Strptime(s) == s[1] * SecondsPerDay + s[2]

\* ------------------------------------------------------------ pathlib
VARIABLE host       \* "posix" or "windows": which Path class pathlib uses

Hosts == {"posix", "windows"}

\* A path string is a lead ("" relative, "/" or "//") and the names between
\* its slashes; share is empty until the string is parsed.
MkPath(anchor, parts) == [anchor |-> anchor, share |-> <<>>, parts |-> parts]

\* Path(path), line 254: on Windows "//server/share/..." is a UNC path whose
\* anchor is "\\\\server\\share\\"; on POSIX the anchor is "//"
PathOf(path) ==
    IF host = "windows" /\ path.anchor = "//" /\ path.share = <<>>
       /\ Len(path.parts) >= 2
    THEN [anchor |-> "//", share |-> SubSeq(path.parts, 1, 2),
          parts |-> SubSeq(path.parts, 3, Len(path.parts))]
    ELSE path

\* Path(p).parent: the anchor (or "." for a relative path) is its own parent
Parent(p) ==
    IF Len(p.parts) = 0 THEN p
    ELSE [anchor |-> p.anchor, share |-> p.share,
          parts |-> SubSeq(p.parts, 1, Len(p.parts) - 1)]

\* names in which "__ExternalActors__" or "__ExternalObjects" occurs as a
\* substring
MarkerNames ==
    {"__ExternalActors__", "__ExternalObjects__", "old__ExternalActors__bak"}

\* the marker test looking at the last name of the directory only
HasMarker_NameOnly(dir) ==
    /\ Len(dir.parts) > 0
    /\ dir.parts[Len(dir.parts)] \in MarkerNames

\* "__ExternalActors__" in str(parent_dir) or "__ExternalObjects" in str(..)
HasMarker(dir) ==
    \/ \E i \in 1..Len(dir.parts) : dir.parts[i] \in MarkerNames
    \/ \E i \in 1..Len(dir.share) : dir.share[i] \in MarkerNames

\* the first step going one level above a marker directory
FirstStep_OneUp(path) ==
    LET parent_dir == Parent(PathOf(path))
    IN  IF HasMarker(parent_dir) THEN Parent(parent_dir)
        ELSE parent_dir

\* lines 252-259, the directory one file path contributes
FirstStep(path) ==
    LET parent_dir == Parent(PathOf(path))
    IN  IF HasMarker(parent_dir) THEN Parent(Parent(parent_dir))
        ELSE parent_dir

\* lines 264-267, one pass of the while loop
ParentPass(dirs) == {Parent(d) : d \in dirs}

\* the loop condition with the cap off by one
NeedsFolding_OffByOne(unique_dirs_list) ==
    Cardinality(unique_dirs_list) > FoldCap + 1

\* line 263, the condition of the while loop
NeedsFolding(unique_dirs_list) == Cardinality(unique_dirs_list) > FoldCap

RECURSIVE FoldLoop(_)
FoldLoop(dirs) ==
    IF NeedsFolding(dirs) THEN FoldLoop(ParentPass(dirs)) ELSE dirs

Range(s) == {s[i] : i \in 1..Len(s)}

\* lines 250-259, the set after the first loop
FirstSet(paths) == {FirstStep(p) : p \in Range(paths)}

\* extract_unique_directories(file_paths), the list returned taken as a set
ExtractUniqueDirectories(paths) == FoldLoop(FirstSet(paths))

\* d is an ancestor of p: one of Path(p).parents ("." for a relative path,
\* the anchor for an absolute one)
IsAncestor(d, p) ==
    /\ d.anchor = p.anchor
    /\ d.share = p.share
    /\ Len(d.parts) < Len(p.parts)
    /\ SubSeq(p.parts, 1, Len(d.parts)) = d.parts

\* ------------------------------------------------------------- messages
\* The content of a message is a text; the report payload is the text
\* fenced json.dumps(records) block of line 51, kept as its records.
Text(s) == [text |-> s, json |-> <<>>]
JsonPayload(records) == [text |-> "json_block", json |-> records]

Msg(role, content) == [role |-> role, content |-> content]

SystemMsg == Msg("system", Text(SYSTEM_MESSAGE))

Queries == {"q_short", "q_huge"}
Replies == {"r_short", "r_long"}

\* len(encoding.encode(value)) of a content
ContentTokens(c) ==
    IF c.text = SYSTEM_MESSAGE THEN 470
    ELSE IF c.text = "q_short" THEN 6
    ELSE IF c.text = "q_huge" THEN 100200
    ELSE IF c.text = "r_short" THEN 40
    ELSE IF c.text = "r_long" THEN 99000
    ELSE IF c.text = "blob" THEN 100001
    ELSE 10 + 90 * Len(c.json)

RECURSIVE SumTokens(_)
SumTokens(messages) ==
    IF Len(messages) = 0 THEN 0
    ELSE 3 + 1 + ContentTokens(messages[1].content) + SumTokens(Tail(messages))

\* num_tokens_from_messages: 3 per message, the tokens of each value (a role
\* is one token), and 3 to prime the reply
NumTokensFromMessages(messages) == SumTokens(messages) + 3

\* messages.pop(1)
Pop1(messages) == <<messages[1]>> \o SubSeq(messages, 3, Len(messages))

\* line 90, the condition of the while loop
OverBudget(msgs) == NumTokensFromMessages(msgs) > MAX_TOKENS

\* truncate_history: ok = FALSE is the IndexError of pop(1) on a list of
\* fewer than two entries
RECURSIVE TruncateHistory(_)
TruncateHistory(messages) ==
    IF OverBudget(messages)
    THEN IF Len(messages) < 2
         THEN [ok |-> FALSE, messages |-> messages]
         ELSE TruncateHistory(Pop1(messages))
    ELSE [ok |-> TRUE, messages |-> messages]

\* assemble_messages(history, new_message)
AssembleMessages(history, new_message) ==
    TruncateHistory(<<SystemMsg>> \o history \o <<Msg("user", new_message)>>)

\* json.dump / json.load of a list of {role, content} objects: the file
\* holds a list of pairs
JsonDump(messages) ==
    [i \in 1..Len(messages) |-> <<messages[i].role, messages[i].content>>]

JsonLoad(data) == [i \in 1..Len(data) |-> Msg(data[i][1], data[i][2])]

IsSystem(m) == m.role = "system"
NotSystem(m) == m.role # "system"

\* the changelist numbers of the report payloads among some messages
ChangesIn(msgs) ==
    UNION { {msgs[i].content.json[j].changelist_number :
                j \in 1..Len(msgs[i].content.json)} : i \in 1..Len(msgs) }

\* save_history lines 73-74
HistoryToSave(messages, new_response) ==
    Append(SelectSeq(messages, NotSystem), Msg("assistant", Text(new_response)))

\* ask_query lines 140-146
QueryHistoryToSave(messages, new_response) ==
    messages \o <<Msg("assistant", Text(new_response))>>

\* ------------------------------------------------- version-control backend
File(parts) == MkPath("//", <<"depot">> \o parts)

\* what a submitted change carries besides its number and time
Commits ==
    { [user |-> "alice", desc |-> "hero mesh",
       depotFile |-> << File(<<"art", "hero", "mesh.fbx">>),
                        File(<<"art", "hero", "__ExternalActors__", "x.uasset">>) >>],
      [user |-> "shared", desc |-> "no files", depotFile |-> <<>>] }

\* P4_USERS = p4.run_users(), line 39
P4_USERS == { [User |-> "alice", FullName |-> "Alice Archer"] }

\* lines 211-214
UserFullName(user) ==
    IF \E u \in P4_USERS : u.User = user
    THEN (CHOOSE u \in P4_USERS : u.User = user).FullName
    ELSE user

VARIABLES
    now,            \* the clock, in seconds
    changes,        \* the submitted changes, in change-number order
    histFile,       \* data/history.json
    wmFile,         \* data/latest_timestamp.txt
    dataDir,        \* whether the data directory exists
    pc,             \* position of the current run
    mode,           \* "report" or "query"
    args,           \* start_time, end_time of the current create_report
    history,        \* local of create_report
    messages,       \* local of create_report / ask_query
    ai_response,    \* local: the reply
    outcome,        \* how the last run ended
    result,         \* what the last run returned
    trace,          \* the external calls of the current (or last) run
    pre,            \* the persisted state when the current run started
    batched,        \* change numbers that were in some cl_details
    reported,       \* change numbers that were in a persisted report
    runs,           \* runs started
    file_paths,     \* extract_unique_directories: its argument
    unique_dirs,    \* extract_unique_directories: unique_dirs_list
    fpc,            \* extract_unique_directories: position
    t_input,        \* truncate_history: its argument as passed
    t_messages,     \* truncate_history: the list being truncated
    tpc             \* truncate_history: position

runVars == <<now, changes, histFile, wmFile, dataDir, pc, mode, args, history,
             messages, ai_response, outcome, result, trace, pre, batched, reported,
             runs>>
foldVars == <<file_paths, unique_dirs, fpc>>
truncVars == <<t_input, t_messages, tpc>>
vars == <<runVars, foldVars, truncVars, host>>

AbsentHistory == [state |-> "absent", data |-> <<>>]
EmptyHistory == [state |-> "empty", data |-> <<>>]
AbsentWatermark == [exists |-> FALSE, text |-> None]

RunInit ==
    /\ now = T0
    /\ changes = <<>>
    /\ histFile = AbsentHistory
    /\ wmFile = AbsentWatermark
    /\ dataDir \in BOOLEAN
    /\ pc = "idle"
    /\ mode = "none"
    /\ args = [start |-> None, end |-> None]
    /\ history = <<>>
    /\ messages = <<>>
    /\ ai_response = ""
    /\ outcome = "none"
    /\ result = "none"
    /\ trace = <<>>
    /\ pre = [hist |-> AbsentHistory, wm |-> AbsentWatermark]
    /\ batched = {}
    /\ reported = {}
    /\ runs = 0

FoldIdle ==
    /\ file_paths = <<>>
    /\ unique_dirs = {}
    /\ fpc = "idle"

TruncIdle ==
    /\ t_input = <<>>
    /\ t_messages = <<>>
    /\ tpc = "idle"

\* the runs are followed on one host: the files of Commits fold to the same
\* directories on both
Init == RunInit /\ FoldIdle /\ TruncIdle /\ host = "posix"

\* --------------------------------------------------------- environment
Tick ==
    /\ now < MaxTime
    /\ now' = now + 1
    /\ UNCHANGED <<changes, histFile, wmFile, dataDir, pc, mode, args, history,
                   messages, ai_response, outcome, result, trace, pre, batched, reported,
                   runs>>

\* a change is submitted: it gets the next number and the current time
Submit(c) ==
    /\ Len(changes) < MaxChanges
    /\ changes' = Append(changes,
                         [change |-> Len(changes) + 1, time |-> now,
                          user |-> c.user, desc |-> c.desc,
                          depotFile |-> c.depotFile])
    /\ UNCHANGED <<now, histFile, wmFile, dataDir, pc, mode, args, history,
                   messages, ai_response, outcome, result, trace, pre, batched, reported,
                   runs>>

NoPre == [hist |-> AbsentHistory, wm |-> AbsentWatermark]
NoArgs == [start |-> None, end |-> None]

\* the run ends: the locals are gone
EndRun(how, returned) ==
    /\ pc' = "idle"
    /\ outcome' = how
    /\ result' = returned
    /\ mode' = "none"
    /\ args' = NoArgs
    /\ history' = <<>>
    /\ messages' = <<>>
    /\ ai_response' = ""
    /\ pre' = NoPre

\* ------------------------------------------------------- create_report
\* the explicit start_time / end_time strings a caller may pass
\* the windows create_report is called with, lines 281-297: none, or an
\* explicit start and end
Windows == { [start |-> None, end |-> None],
             [start |-> Strftime(T0 - 1), end |-> Strftime(T0)] }

\* get_previous_datetime without the added second of line 245
GetPreviousDatetime_Inclusive(previous_datetime) ==
    IF previous_datetime = None
    THEN IF wmFile.exists THEN Strptime(wmFile.text) ELSE now - SecondsPerDay
    ELSE Strptime(previous_datetime)

\* get_previous_datetime(previous_datetime), lines 234-246
GetPreviousDatetime(previous_datetime) ==
    LET base == IF previous_datetime = None
                THEN IF wmFile.exists THEN Strptime(wmFile.text)
                     ELSE now - SecondsPerDay
                ELSE Strptime(previous_datetime)
    IN  base + 1

\* get_current_datetime(current_datetime), lines 226-231
GetCurrentDatetime(current_datetime) ==
    IF current_datetime = None THEN now ELSE Strptime(current_datetime)

\* p4.run_changes("-r", "@from,@to"): the changes of the window, oldest first
RunChanges(from, to) ==
    LET lo == Strptime(from)
        hi == Strptime(to)
        InWindow(c) == lo <= c.time /\ c.time <= hi
    IN  SelectSeq(changes, InWindow)

\* lines 201-205
UniqueFolders(cl) ==
    IF cl.depotFile # <<>> THEN ExtractUniqueDirectories(cl.depotFile) ELSE {}

\* lines 208-220
Record(cl) ==
    [changelist_number |-> cl.change,
     username |-> cl.user,
     user_full_name |-> UserFullName(cl.user),
     time |-> Strftime(cl.time),
     description |-> cl.desc,
     edited_folders |-> UniqueFolders(cl)]

\* the records without the test of line 221
Records_KeepAll(cl_details) ==
    [i \in 1..Len(cl_details) |-> Record(cl_details[i])]

\* lines 207-223
Records(cl_details) ==
    LET all == [i \in 1..Len(cl_details) |-> Record(cl_details[i])]
        Kept(r) == r.edited_folders # {}
    IN  SelectSeq(all, Kept)

\* create_report line 46 with get_history, lines 60-69
CreateReport(start_time, end_time) ==
    /\ pc = "idle"
    /\ runs < MaxRuns
    /\ runs' = runs + 1
    /\ trace' = <<>>
    /\ IF histFile.state = "empty"
       THEN \* json.load of an empty file raises JSONDecodeError
            /\ EndRun("history_unreadable", "error")
            /\ UNCHANGED <<histFile, dataDir>>
       ELSE /\ IF histFile.state = "json"
               THEN /\ history' = JsonLoad(histFile.data)
                    /\ UNCHANGED <<histFile, dataDir>>
               ELSE \* mkdir, touch
                    /\ history' = <<>>
                    /\ dataDir' = TRUE
                    /\ histFile' = EmptyHistory
            /\ pc' = "fetch"
            /\ mode' = "report"
            /\ args' = [start |-> start_time, end |-> end_time]
            /\ pre' = [hist |-> histFile, wm |-> wmFile]
            /\ UNCHANGED <<messages, ai_response, outcome, result>>
    /\ UNCHANGED <<now, changes, wmFile, batched, reported>>

\* create_report lines 47-52 with get_recent_changelists, lines 179-223.
\* The IndexError of truncate_history cannot happen here: the system entry
\* alone is within the budget, so the loop stops at one entry at the latest.
GetRecentChangelists ==
    /\ pc = "fetch"
    /\ LET changelist_timestamp == Strftime(GetPreviousDatetime(args.start))
           current_timestamp == Strftime(GetCurrentDatetime(args.end))
           changelists == RunChanges(changelist_timestamp, current_timestamp)
       IN  \/ \* p4.run_changes raises
              /\ EndRun("listing_failed", "error")
              /\ UNCHANGED <<wmFile, batched, reported>>
           \/ /\ changelists = <<>>
              /\ EndRun("empty_listing", "None")
              /\ UNCHANGED <<wmFile, batched, reported>>
           \/ \* p4.run_describe raises P4Exception
              /\ changelists # <<>>
              /\ EndRun("describe_failed", "None")
              /\ UNCHANGED <<wmFile, batched, reported>>
           \/ /\ changelists # <<>>
              /\ LET cl_details == changelists
                     recent_changelists == Records(cl_details)
                     assembled == AssembleMessages(history,
                                                   JsonPayload(recent_changelists))
                 IN  /\ wmFile' = [exists |-> TRUE,
                                   text |-> Strftime(cl_details[Len(cl_details)].time)]
                     /\ batched' = batched \cup
                                   {cl_details[i].change : i \in 1..Len(cl_details)}
                     /\ UNCHANGED reported
                     /\ IF recent_changelists = <<>>
                        THEN EndRun("no_records", "None")
                        ELSE IF ~assembled.ok
                        THEN EndRun("index_error", "error")
                        ELSE /\ messages' = assembled.messages
                             /\ pc' = "dispatch"
                             /\ UNCHANGED <<mode, args, history, ai_response,
                                            outcome, result, pre>>
    /\ UNCHANGED <<now, changes, histFile, dataDir, trace, runs>>

\* get_openai_message, lines 166-176 (create_report line 53)
GetOpenaiMessage ==
    /\ pc = "dispatch"
    /\ mode = "report"
    /\ trace' = Append(trace, "dispatch")
    /\ \/ \E reply \in Replies :
            /\ ai_response' = reply
            /\ pc' = "save"
            /\ UNCHANGED <<mode, args, history, messages, outcome, result, pre>>
       \/ EndRun("backend_failed", "error")
    /\ UNCHANGED <<now, changes, histFile, wmFile, dataDir, batched, reported,
                   runs>>

\* save_history, lines 72-76 (create_report line 54)
SaveHistory ==
    /\ pc = "save"
    /\ mode = "report"
    /\ histFile' = [state |-> "json",
                    data |-> JsonDump(HistoryToSave(messages, ai_response))]
    /\ reported' = reported \cup ChangesIn(HistoryToSave(messages, ai_response))
    /\ trace' = Append(trace, "persist")
    /\ pc' = "deliver"
    /\ UNCHANGED <<now, changes, wmFile, dataDir, mode, args, history, messages,
                   ai_response, outcome, result, pre, batched, runs>>

\* send_discord_message posting again after a refused delivery
SendDiscordMessage_Retry ==
    /\ pc = "deliver"
    /\ trace' = Append(trace, "deliver")
    /\ \/ EndRun("delivered", ai_response)
       \/ /\ Len(trace) < 4
          /\ UNCHANGED <<pc, mode, args, history, messages, ai_response,
                         outcome, result, pre>>
    /\ UNCHANGED <<now, changes, histFile, wmFile, dataDir, batched, reported,
                   runs>>

\* send_discord_message raising on a status other than 204
SendDiscordMessage_Raise ==
    /\ pc = "deliver"
    /\ trace' = Append(trace, "deliver")
    /\ \/ \E status_code \in {204, 404} :
            IF status_code = 204 THEN EndRun("delivered", ai_response)
            ELSE EndRun("delivery_refused", "error")
       \/ EndRun("delivery_failed", "error")
    /\ UNCHANGED <<now, changes, histFile, wmFile, dataDir, batched, reported,
                   runs>>

\* send_discord_message, lines 154-163, and the return of the run
SendDiscordMessage ==
    /\ pc = "deliver"
    /\ trace' = Append(trace, "deliver")
    /\ \/ \E status_code \in {204, 404} :
            EndRun(IF status_code = 204 THEN "delivered" ELSE "delivery_refused",
                   ai_response)
       \/ \* requests.post raises
          EndRun("delivery_failed", "error")
    /\ UNCHANGED <<now, changes, histFile, wmFile, dataDir, batched, reported,
                   runs>>

\* ------------------------------------------------------------ ask_query
\* ask_query lines 119-126
AskQuery(query) ==
    /\ pc = "idle"
    /\ runs < MaxRuns
    /\ runs' = runs + 1
    /\ trace' = <<>>
    /\ IF histFile.state = "empty"
       THEN EndRun("history_unreadable", "error")
       ELSE LET previous_messages ==
                    IF histFile.state = "json" THEN JsonLoad(histFile.data)
                    ELSE <<SystemMsg>>
                truncated ==
                    TruncateHistory(previous_messages \o <<Msg("user", Text(query))>>)
            IN  IF ~truncated.ok
                THEN EndRun("index_error", "error")
                ELSE /\ messages' = truncated.messages
                     /\ pc' = "dispatch"
                     /\ mode' = "query"
                     /\ pre' = [hist |-> histFile, wm |-> wmFile]
                     /\ UNCHANGED <<args, history, ai_response, outcome, result>>
    /\ UNCHANGED <<now, changes, histFile, wmFile, dataDir, batched, reported>>

\* ask_query lines 128-136
AskQueryCompletion ==
    /\ pc = "dispatch"
    /\ mode = "query"
    /\ trace' = Append(trace, "dispatch")
    /\ \/ \E reply \in Replies :
            /\ ai_response' = reply
            /\ pc' = "save"
            /\ UNCHANGED <<mode, args, history, messages, outcome, result, pre>>
       \/ EndRun("backend_failed", "error")
    /\ UNCHANGED <<now, changes, histFile, wmFile, dataDir, batched, reported,
                   runs>>

\* ask_query lines 138-149: open(HISTORY_FILE, "w") needs the data directory
AskQueryDump ==
    /\ pc = "save"
    /\ mode = "query"
    /\ IF dataDir
       THEN /\ histFile' = [state |-> "json",
                            data |-> JsonDump(QueryHistoryToSave(messages,
                                                                 ai_response))]
            /\ trace' = Append(trace, "persist")
            /\ pc' = "deliver"
            /\ UNCHANGED <<mode, args, history, messages, ai_response, outcome,
                           result, pre>>
       ELSE /\ EndRun("open_failed", "error")
            /\ UNCHANGED <<histFile, trace>>
    /\ UNCHANGED <<now, changes, wmFile, dataDir, batched, reported, runs>>

\* the process dies in the middle of a run
Crash ==
    /\ pc # "idle"
    /\ EndRun("crashed", "error")
    /\ UNCHANGED <<now, changes, histFile, wmFile, dataDir, trace, batched, reported,
                   runs>>

RunNext ==
    \/ Tick
    \/ \E c \in Commits : Submit(c)
    \/ \E w \in Windows : CreateReport(w.start, w.end)
    \/ GetRecentChangelists
    \/ GetOpenaiMessage
    \/ SaveHistory
    \/ SendDiscordMessage
    \/ \E q \in Queries : AskQuery(q)
    \/ AskQueryCompletion
    \/ AskQueryDump
    \/ Crash

Next == RunNext /\ UNCHANGED <<foldVars, truncVars, host>>

Spec == Init /\ [][Next]_vars

\* only the scheduled mode of line 296 and the query mode of line 293
ScheduledNext ==
    \/ Tick
    \/ \E c \in Commits : Submit(c)
    \/ CreateReport(None, None)
    \/ GetRecentChangelists
    \/ GetOpenaiMessage
    \/ SaveHistory
    \/ SendDiscordMessage
    \/ \E q \in Queries : AskQuery(q)
    \/ AskQueryCompletion
    \/ AskQueryDump
    \/ Crash

NextScheduled == ScheduledNext /\ UNCHANGED <<foldVars, truncVars, host>>

SpecScheduled == Init /\ [][NextScheduled]_vars

\* ------------------------------------- extract_unique_directories alone
DirNames == << "d01", "d02", "d03", "d04", "d05", "d06", "d07", "d08", "d09",
               "d10", "d11", "d12", "d13", "d14", "d15", "d16" >>
GroupNames == << "art", "code", "audio" >>

Shapes == {"flat", "deep", "grouped", "actors", "objects", "longname",
           "relative", "bare", "rooted"}

\* the i-th file path of a shape
ShapeFile(shape, i) ==
    LET d == DirNames[i]
    IN  IF shape = "flat" THEN File(<<d, "f.txt">>)
        ELSE IF shape = "deep" THEN File(<<d, "src", "f.txt">>)
        ELSE IF shape = "grouped"
             THEN File(<<GroupNames[((i - 1) % 3) + 1], d, "f.txt">>)
        ELSE IF shape = "actors"
             THEN File(<<"game", d, "__ExternalActors__", "x.uasset">>)
        ELSE IF shape = "objects"
             THEN File(<<"__ExternalObjects__", d, "maps", "y.uasset">>)
        ELSE IF shape = "longname"
             THEN File(<<d, "old__ExternalActors__bak", "z.uasset">>)
        ELSE IF shape = "relative" THEN MkPath("", <<d, "f.txt">>)
        ELSE IF shape = "bare" THEN MkPath("", <<d>>)
        ELSE MkPath("/", <<d, "lib", "f.txt">>)

ShapeFiles(shape, n) == [i \in 1..n |-> ShapeFile(shape, i)]

\* the three paths of one author: a file, a file under a marker directory
\* next to it, and a file elsewhere
ScenarioPaths ==
    << MkPath("", <<"art", "characters", "hero", "mesh.fbx">>),
       MkPath("", <<"art", "characters", "hero", "__ExternalActors__",
                    "x.uasset">>),
       MkPath("", <<"code", "gameplay", "player.cpp">>) >>

\* the file lists extract_unique_directories is called with
FoldInputs ==
    {ScenarioPaths} \cup
    { ShapeFiles(s1, n1) \o ShapeFiles(s2, n2) :
        s1 \in Shapes, n1 \in 1..MaxFiles, s2 \in {"deep", "actors", "bare"},
        n2 \in {0, 1, MaxFiles} }

FoldInit ==
    /\ file_paths \in FoldInputs
    /\ unique_dirs = {}
    /\ fpc = "first"

\* lines 250-262
FoldFirst ==
    /\ fpc = "first"
    /\ unique_dirs' = FirstSet(file_paths)
    /\ fpc' = "loop"
    /\ UNCHANGED file_paths

\* lines 263-267, one iteration
FoldPass ==
    /\ fpc = "loop"
    /\ NeedsFolding(unique_dirs)
    /\ unique_dirs' = ParentPass(unique_dirs)
    /\ UNCHANGED <<file_paths, fpc>>

\* line 269
FoldReturn ==
    /\ fpc = "loop"
    /\ ~NeedsFolding(unique_dirs)
    /\ fpc' = "returned"
    /\ UNCHANGED <<file_paths, unique_dirs>>

FoldNext ==
    /\ \/ FoldFirst
       \/ FoldPass
       \/ FoldReturn
    /\ UNCHANGED <<runVars, truncVars, host>>

InitFold ==
    RunInit /\ dataDir = TRUE /\ FoldInit /\ TruncIdle /\ host \in Hosts

SpecFold == InitFold /\ [][FoldNext]_vars

\* the interpreter keeps executing the function until it returns
SpecFoldFair == SpecFold /\ WF_vars(FoldNext)

\* ------------------------------------------------ truncate_history alone
MaxLen == 3

SampleMessages ==
    { SystemMsg,
      Msg("system", Text("blob")),
      Msg("user", Text("q_short")),
      Msg("user", Text("q_huge")),
      Msg("assistant", Text("r_short")),
      Msg("assistant", Text("r_long")) }

TruncInputs == UNION { [1..n -> SampleMessages] : n \in 0..MaxLen }

TruncInit ==
    /\ t_input \in TruncInputs
    /\ t_messages = t_input
    /\ tpc = "loop"

\* lines 90-92, one iteration
TruncPop ==
    /\ tpc = "loop"
    /\ OverBudget(t_messages)
    /\ IF Len(t_messages) < 2
       THEN \* pop(1) raises IndexError
            /\ tpc' = "raised"
            /\ UNCHANGED t_messages
       ELSE /\ t_messages' = Pop1(t_messages)
            /\ UNCHANGED tpc
    /\ UNCHANGED t_input

\* line 93
TruncReturn ==
    /\ tpc = "loop"
    /\ ~OverBudget(t_messages)
    /\ tpc' = "returned"
    /\ UNCHANGED <<t_input, t_messages>>

TruncNext ==
    /\ \/ TruncPop
       \/ TruncReturn
    /\ UNCHANGED <<runVars, foldVars, host>>

InitTrunc ==
    RunInit /\ dataDir = TRUE /\ FoldIdle /\ TruncInit /\ host = "posix"

SpecTrunc == InitTrunc /\ [][TruncNext]_vars

\* =================================================================== claims

\* C1: whenever a run writes the watermark file, the value written is greater
\* than or equal to the value that was persisted before (with or without
\* explicit window arguments).
C1_WatermarkNeverDecreases ==
    [][ (wmFile.exists /\ wmFile'.exists)
            => Strptime(wmFile'.text) >= Strptime(wmFile.text) ]_vars

\* C2: when the generative backend call of a create_report run fails, the
\* persisted watermark and history are what they were when the run started.
C2_BackendFailurePersistsNothing ==
    [][ (pc = "dispatch" /\ mode = "report" /\ pc' = "idle"
            /\ outcome' = "backend_failed")
            => (histFile' = pre.hist /\ wmFile' = pre.wm) ]_vars

\* C3: when the change listing of the window is empty, create_report returns
\* None, the history file and the watermark file are as they were when the
\* run started (the history file is not even created), and neither the
\* backend nor the notification sink was called.
C3_EmptyListingChangesNothing ==
    [][ (pc = "fetch" /\ pc' = "idle" /\ outcome' = "empty_listing")
            => /\ result' = "None"
               /\ histFile' = pre.hist
               /\ wmFile' = pre.wm
               /\ trace' = <<>> ]_vars

\* C4: truncate_history never raises, and what it returns costs at most
\* MAX_TOKENS or is the single entry that was at index 0.
C4_TruncateNeverFails ==
    /\ tpc # "raised"
    /\ tpc = "returned"
        => \/ NumTokensFromMessages(t_messages) <= MAX_TOKENS
           \/ (Len(t_messages) = 1 /\ t_messages[1] = t_input[1])

\* C5: every message sequence submitted to the backend, in either mode, has
\* exactly one system entry, at index 0.
C5_OneSystemEntryFirst ==
    pc \in {"save", "deliver"}
        => /\ Len(SelectSeq(messages, IsSystem)) = 1
           /\ IsSystem(messages[1])

\* C6: whenever a run of either mode persists history, the sequence written
\* reloads as the dispatched messages without the system entry followed by
\* the new assistant reply, and holds no system entry.
C6_PersistedIsStrippedPlusReply ==
    [][ (pc = "save" /\ pc' = "deliver")
            => /\ histFile'.state = "json"
               /\ JsonLoad(histFile'.data)
                    = Append(SelectSeq(messages, NotSystem),
                             Msg("assistant", Text(ai_response)))
               /\ \A i \in 1..Len(histFile'.data) :
                    JsonLoad(histFile'.data)[i].role # "system" ]_vars

\* C7: with scheduled runs only, no submitted change is permanently skipped:
\* a change that was in no batch so far is later than the persisted
\* watermark, so that the window of a later run still covers it.
C7_NoChangeSkipped ==
    wmFile.exists
        => \A i \in 1..Len(changes) :
              changes[i].change \notin batched
                  => changes[i].time > Strptime(wmFile.text)

\* C8: when extract_unique_directories returns for a non-empty list of file
\* paths, it returns at most 12 directories, each an ancestor of at least one
\* of the file paths.
C8_FoldedAtMostTwelveAncestors ==
    fpc = "returned"
        => /\ Cardinality(unique_dirs) <= 12
           /\ \A d \in unique_dirs :
                \E i \in 1..Len(file_paths) :
                    IsAncestor(d, PathOf(file_paths[i]))

C8_Witness ==
    /\ fpc = "returned"
    /\ Cardinality(FirstSet(file_paths)) > 12
    /\ Cardinality(unique_dirs) > 1

\* C9: when the change listing raises or the batched describe raises
\* P4Exception, the run returns no events, the watermark and the history are
\* what they were when the run started, and nothing was dispatched or
\* delivered.
C9_BackendQueryFailureChangesNothing ==
    [][ (pc = "fetch" /\ pc' = "idle"
            /\ outcome' \in {"listing_failed", "describe_failed"})
            => /\ result' \in {"None", "error"}
               /\ histFile' = pre.hist
               /\ wmFile' = pre.wm
               /\ trace' = <<>> ]_vars

\* C10: in every run the calls are, in this order and each at most once, the
\* dispatch to the backend, the write of the history and the delivery; the
\* history is written only after a reply was received (the empty file that
\* get_history creates holds no history and is not a write of it).
C10_DispatchPersistDeliver ==
    /\ [](\E n \in 0..3 :
            trace = SubSeq(<<"dispatch", "persist", "deliver">>, 1, n))
    /\ [][ (histFile'.state = "json" /\ histFile' # histFile)
            => /\ trace = <<"dispatch">>
               /\ ai_response \in Replies
               /\ trace' = <<"dispatch", "persist">> ]_vars

C10_Witness ==
    /\ pc = "idle"
    /\ outcome = "delivered"
    /\ trace = <<"dispatch", "persist", "deliver">>

\* C11: when the notification sink answers with a status other than 204, the
\* run ends there: the history and the watermark the run has written stay
\* as written, the delivery was attempted once, and the run returns the
\* reply.
C11_RefusedDeliveryOnlyLogged ==
    [][ (pc = "deliver" /\ pc' = "idle" /\ outcome' = "delivery_refused")
            => /\ result' = ai_response
               /\ histFile' = histFile
               /\ histFile'.state = "json"
               /\ histFile'.data[Len(histFile'.data)]
                    = <<"assistant", Text(ai_response)>>
               /\ wmFile' = wmFile
               /\ (mode = "report" => wmFile'.exists)
               /\ trace' = <<"dispatch", "persist", "deliver">> ]_vars

C11_Witness ==
    /\ pc = "idle"
    /\ outcome = "delivery_refused"
    /\ result \in Replies
    /\ histFile.state = "json"
    /\ wmFile.exists

\* the changes that were in a batch, are in no persisted report and are not
\* in the messages of the current run
Lost == batched \ (reported \cup ChangesIn(messages))

\* the window a scheduled or explicit run at pc = "fetch" lists
ListedNow ==
    RunChanges(Strftime(GetPreviousDatetime(args.start)),
               Strftime(GetCurrentDatetime(args.end)))

C13_ScenarioFoldsToTwo ==
    (fpc = "returned" /\ file_paths = ScenarioPaths)
        => unique_dirs = { MkPath("", <<"art", "characters", "hero">>),
                           MkPath("", <<"code", "gameplay">>) }

\* C13: the three scenario paths fold to art/characters/hero, code/gameplay
\* and art/characters, the directory two levels above the marker directory
\* art/characters/hero/__ExternalActors__.
C13_ScenarioFoldsToThree ==
    (fpc = "returned" /\ file_paths = ScenarioPaths)
        => unique_dirs = { MkPath("", <<"art", "characters", "hero">>),
                           MkPath("", <<"art", "characters">>),
                           MkPath("", <<"code", "gameplay">>) }

C13_Witness ==
    /\ fpc = "returned"
    /\ file_paths = ScenarioPaths
    /\ Cardinality(unique_dirs) = 3

\* the parsed path with its last k names dropped, the anchor being the end
Up(p, k) ==
    [anchor |-> p.anchor, share |-> p.share,
     parts |-> SubSeq(p.parts, 1,
                      IF Len(p.parts) > k THEN Len(p.parts) - k ELSE 0)]

\* the names in the string of the parent directory of a parsed path
ParentNames(p) == Range(p.share) \cup Range(Up(p, 1).parts)

\* the name of the immediate parent directory is one of the two marker tokens
ParentNamedMarker(p) ==
    /\ Len(p.parts) >= 2
    /\ p.parts[Len(p.parts) - 1]
         \in {"__ExternalActors__", "__ExternalObjects__"}

\* C17 as stated: the first step maps a file to the directory two levels
\* above its parent exactly when the name of its immediate parent is a marker
\* token, and to its parent otherwise.
C17_MarkerIsParentName ==
    [][ (fpc = "first" /\ fpc' = "loop")
            => unique_dirs' =
                 { IF ParentNamedMarker(PathOf(p)) THEN Up(PathOf(p), 3)
                   ELSE Up(PathOf(p), 1) : p \in Range(file_paths) } ]_vars

\* C17: the first step maps a file to the directory two levels above its
\* parent (stopping at the anchor) exactly when the text "__ExternalActors__"
\* or "__ExternalObjects" occurs anywhere in the string of its parent
\* directory, in a higher ancestor or inside a longer name too, and to its
\* parent otherwise.
C17_MarkerAnywhereInParent ==
    [][ (fpc = "first" /\ fpc' = "loop")
            => unique_dirs' =
                 { IF ParentNames(PathOf(p)) \cap MarkerNames # {}
                   THEN Up(PathOf(p), 3)
                   ELSE Up(PathOf(p), 1) : p \in Range(file_paths) } ]_vars

C17_Witness ==
    /\ fpc = "loop"
    /\ host = "posix"
    /\ \E i \in 1..Len(file_paths) :
          /\ file_paths[i] = ShapeFile("objects", 1)
          /\ ~ParentNamedMarker(file_paths[i])
          /\ Up(file_paths[i], 3) \in unique_dirs
          /\ Up(file_paths[i], 1) \notin unique_dirs

\* C20: for every finite list of file paths the folding loop ends and
\* extract_unique_directories returns.
C20_FoldLoopTerminates == <>(fpc = "returned")

\* the records of the payload a report run is about to dispatch
PayloadOf(msgs) == msgs[Len(msgs)].content.json

\* the described changes that list files, in the backend's order
WithFiles(cl_details) ==
    LET Listed(cl) == cl.depotFile # <<>>
    IN  SelectSeq(cl_details, Listed)

\* C14: the records get_recent_changelists returns all have a non-empty
\* edited_folders, and they are the described changes that list files, one
\* record each, in the backend's order.
C14_NoRecordWithoutFolders ==
    [][ (pc = "fetch" /\ pc' = "dispatch")
            => LET recs == PayloadOf(messages')
                   kept == WithFiles(ListedNow)
               IN  /\ \A i \in 1..Len(recs) : recs[i].edited_folders # {}
                   /\ Len(recs) = Len(kept)
                   /\ \A i \in 1..Len(recs) :
                         recs[i].changelist_number = kept[i].change ]_vars

C14_Witness ==
    /\ pc = "dispatch"
    /\ mode = "report"
    /\ runs = 1
    /\ PayloadOf(messages) # <<>>
    /\ \E i \in 1..Len(changes) :
          /\ changes[i].change \in batched
          /\ changes[i].depotFile = <<>>
          /\ changes[i].change \notin ChangesIn(messages)

\* C15: with scheduled runs only, the window of a run starts one second
\* after the persisted watermark, and no change of the batch of an earlier
\* run is listed again.
C15_NoChangeReprocessed ==
    pc = "fetch"
        => /\ wmFile.exists
                => GetPreviousDatetime(args.start) = Strptime(wmFile.text) + 1
           /\ \A i \in 1..Len(ListedNow) : ListedNow[i].change \notin batched

C15_Witness ==
    /\ pc = "fetch"
    /\ wmFile.exists
    /\ ListedNow # <<>>
    /\ \E i \in 1..Len(changes) :
          /\ changes[i].change \in batched
          /\ changes[i].time = Strptime(wmFile.text)

\* the entries of a message sequence other than system entries
NonSystem(msgs) == SelectSeq(msgs, NotSystem)

IsSuffix(s, t) ==
    /\ Len(s) <= Len(t)
    /\ s = SubSeq(t, Len(t) - Len(s) + 1, Len(t))

\* the message sequence ask_query builds before budget enforcement
QueryInput(query) ==
    (IF histFile.state = "json" THEN JsonLoad(histFile.data)
     ELSE <<SystemMsg>>) \o <<Msg("user", Text(query))>>

\* the message sequence create_report builds before budget enforcement
ReportInput ==
    <<SystemMsg>> \o history \o <<Msg("user", JsonPayload(Records(ListedNow)))>>

\* C16: in both modes the non-system entries left by budget enforcement are
\* a suffix of the non-system entries it was given: evictions take the
\* oldest non-system entry first.
C16_EvictsOldestFirst ==
    [][ /\ (pc = "idle" /\ pc' = "dispatch")
            => \E query \in Queries :
                  IsSuffix(NonSystem(messages'), NonSystem(QueryInput(query)))
        /\ (pc = "fetch" /\ pc' = "dispatch")
            => IsSuffix(NonSystem(messages'), NonSystem(ReportInput)) ]_vars

\* C18: between runs the history store is absent or holds a list of entries,
\* so the next load succeeds.
C18_HistoryAlwaysLoadable ==
    pc = "idle" => histFile.state \in {"absent", "json"}

\* C19: the last entry of the message sequence a run dispatches is the
\* payload the run submits: the ad-hoc query, or the change records.
C19_SubmittedTurnDispatched ==
    [][ /\ (pc = "idle" /\ pc' = "dispatch")
            => \E query \in Queries :
                  messages'[Len(messages')] = Msg("user", Text(query))
        /\ (pc = "fetch" /\ pc' = "dispatch")
            => messages'[Len(messages')]
                 = Msg("user", JsonPayload(Records(ListedNow))) ]_vars

====
